---- MODULE Spec2Model ----
(***************************************************************************)
(* A model of virtualreality/util/utilz.py:                                *)
(*   - SerialReaderMultiBinary, the multi-header binary packet framer      *)
(*     (specification Spec);                                               *)
(*   - BlobTracker, the camera tracking worker and its lifecycle           *)
(*     (specification SpecTracker).                                        *)
(* Bytes are the naturals 0..255, byte strings are sequences of bytes.     *)
(***************************************************************************)
EXTENDS Integers, Sequences, FiniteSets, TLC

VARIABLES
    buffer,        \* Packetizer.buffer: bytes received, not yet framed
    last_packet,   \* SerialReaderMultiBinary._last_packet (last_read)
    pending,       \* bytes on the serial line, not yet handed to data_received
    feed,          \* what was put on the line last (the injected values)
    out,           \* packets stored by handle_packet since the last injection
    lastByHeader   \* history: the latest packet handle_packet stored, per header

framerVars == <<buffer, last_packet, pending, feed, out, lastByHeader>>

VARIABLES
    alive,         \* BlobTracker.alive
    can_track,     \* BlobTracker.can_track: "unset" until first assigned
    vs,            \* BlobTracker._vs: "None", "open", or "ended" (end() called)
    lock,          \* BlobTracker._lock: "free" or its holder
    poses,         \* BlobTracker.poses, one row a channel
    kalmanFilterz, \* per channel: whether the LazyKalman exists
    wpc,           \* the worker thread's position in run()
    site,          \* the caller of the _try_get_frame in progress
    polls,         \* update() calls of the wait loop of _try_get_frame
    frame,         \* run()'s local frame
    key,           \* solve_blob_poses's channel index
    blob,          \* solve_blob_poses's local blob
    mpc,           \* the caller thread's position
    closeFrom,     \* who called the close() in progress
    closes,        \* close() calls begun
    snapshot,      \* what the last get_poses() returned
    hist           \* history: what has happened so far

trackerVars ==
    <<alive, can_track, vs, lock, poses, kalmanFilterz, wpc, site, polls, frame,
      key, blob, mpc, closeFrom, closes, snapshot, hist>>

VARIABLES
    constructed,              \* whether the LazyKalman has been created
    initial_state_mean,       \* LazyKalman._filter.initial_state_mean
    do_learning,              \* LazyKalman.do_learning
    calibration_countdown,    \* LazyKalman._calibration_countdown
    calibration_observations, \* LazyKalman._calibration_observations
    em_iter,                  \* LazyKalman._em_iter
    x_now,                    \* LazyKalman._x_now
    p_now,                    \* LazyKalman._p_now
    khist                     \* history: what has happened to the filter

filterVars ==
    <<constructed, initial_state_mean, do_learning, calibration_countdown,
      calibration_observations, em_iter, x_now, p_now, khist>>

VARIABLES
    struct_form,        \* SerialReaderBinary._struct_form: the type, repeated
    struct_len,         \* SerialReaderBinary._struct_len: struct_len * type_len
    binary_last_packet, \* SerialReaderBinary._last_packet (last_read)
    bhist               \* history: the last handle_packet call

binaryVars == <<struct_form, struct_len, binary_last_packet, bhist>>

vars == <<framerVars, trackerVars, filterVars, binaryVars>>

(***************************************************************************)
(* Byte strings.                                                           *)
(***************************************************************************)
Min(a, b) == IF a < b THEN a ELSE b

\* s[:n]
Take(s, n) == SubSeq(s, 1, Min(n, Len(s)))

\* s[n:]
Drop(s, n) == SubSeq(s, n + 1, Len(s))

\* bytes.find: the first index at which sub occurs in s, 0 when it does not
Find(sub, s) ==
    LET n == Len(sub)
        at == {i \in 1..(Len(s) - n + 1) : SubSeq(s, i, i + n - 1) = sub}
    IN  IF at = {} THEN 0 ELSE CHOOSE i \in at : \A j \in at : i <= j

\* sub in s
Contains(sub, s) == Find(sub, s) # 0

\* s.split(sep, 1), for a sep that occurs in s
SplitHead(sep, s) == SubSeq(s, 1, Find(sep, s) - 1)

SplitTail(sep, s) == Drop(s, Find(sep, s) + Len(sep) - 1)

(***************************************************************************)
(* The wire format.                                                        *)
(***************************************************************************)
TERMINATOR == <<9, 13, 10>>

HMD == <<104, 109, 100, 58>>

LC == <<108, 99, 58>>

RC == <<114, 99, 58>>

HEADINGS == <<HMD, LC, RC>>

IsHeading(h) == \E i \in 1..Len(HEADINGS) : HEADINGS[i] = h

\* HEADING_FORMS: '4f' for hmd:, '7f5?' for lc: and rc:
FloatCount(h) == IF h = HMD THEN 4 ELSE 7

BoolCount(h) == IF h = HMD THEN 0 ELSE 5

\* struct.calcsize(form): 4 bytes a float, 1 byte a bool, no padding
CalcSize(h) == 4 * FloatCount(h) + BoolCount(h)

\* struct 'f': a float is its 32 bit pattern, little endian on the wire
PackFloat(w) ==
    <<w % 256, (w \div 256) % 256, (w \div 65536) % 256, (w \div 16777216) % 256>>

UnpackFloat(b) == b[1] + 256 * b[2] + 65536 * b[3] + 16777216 * b[4]

\* struct '?': True is written 1, every non-zero byte reads True
PackBool(v) == IF v THEN 1 ELSE 0

UnpackBool(b) == b # 0

RECURSIVE Concat(_)
Concat(ss) == IF ss = <<>> THEN <<>> ELSE Head(ss) \o Concat(Tail(ss))

\* struct.pack(form, *values)
Pack(vals) ==
    Concat([i \in 1..Len(vals.floats) |-> PackFloat(vals.floats[i])])
        \o [i \in 1..Len(vals.flags) |-> PackBool(vals.flags[i])]

\* struct.unpack_from(form, section)
Unpack(h, section) ==
    [floats |-> [i \in 1..FloatCount(h) |->
                    UnpackFloat(SubSeq(section, 4 * i - 3, 4 * i))],
     flags  |-> [i \in 1..BoolCount(h) |->
                    UnpackBool(section[4 * FloatCount(h) + i])]]

NoVals == [floats |-> <<>>, flags |-> <<>>]

\* last_read before anything decoded: None
NoPacket == [header |-> <<>>, floats |-> <<>>, flags |-> <<>>]

\* the tuple (header, fields) handle_packet stores
Packet(h, vals) == [header |-> h, floats |-> vals.floats, flags |-> vals.flags]

(***************************************************************************)
(* SerialReaderMultiBinary.                                                *)
(***************************************************************************)
\* a handle_packet that compares the length of all the bytes after the marker
DecodeExactLength(h, data) ==
    IF Len(data) # CalcSize(h)
    THEN NoPacket
    ELSE Packet(h, Unpack(h, data))

\* handle_packet, up to the unpack: the packet decoded from the bytes after
\* the marker, NoPacket when the truncated section is too short
Decode(h, data) ==
    LET check == CalcSize(h)
        packet_section == Take(data, check)
    IN  IF Len(packet_section) # check
        THEN NoPacket
        ELSE Packet(h, Unpack(h, packet_section))

\* a handle_packet that keeps the first packet it stored
HandlePacketKeepFirst(last, h, data) ==
    IF ~IsHeading(h) \/ last # NoPacket THEN last
    ELSE IF Take(data, CalcSize(h)) = data /\ Len(data) < CalcSize(h) THEN last
    ELSE Packet(h, Unpack(h, Take(data, CalcSize(h))))

\* a handle_packet that stores a packet only over one of the same header
HandlePacketSameHeader(last, h, data) ==
    IF ~IsHeading(h) \/ (last # NoPacket /\ last.header # h) THEN last
    ELSE IF Len(data) < CalcSize(h) THEN last
    ELSE Packet(h, Unpack(h, Take(data, CalcSize(h))))

\* handle_packet: the new value of _last_packet
HandlePacket(last, h, data) ==
    IF ~IsHeading(h) THEN last
    ELSE IF Decode(h, data) = NoPacket THEN last
    ELSE Decode(h, data)

\* the for loop of data_received over HEADINGS, from heading i on;
\* st = [last, out]: the slot, and the packets decoded so far
RECURSIVE ScanHeadings(_, _, _)
ScanHeadings(packet, st, i) ==
    IF i > Len(HEADINGS) THEN st
    ELSE LET h == HEADINGS[i]
         IN  IF Contains(h, packet)
             THEN LET p == SplitTail(h, packet)
                      stored == HandlePacket(st.last, h, p)
                  IN  ScanHeadings(packet,
                          [last |-> stored,
                           out  |-> IF Decode(h, p) # NoPacket
                                    THEN Append(st.out, Decode(h, p))
                                    ELSE st.out],
                          i + 1)
             ELSE ScanHeadings(packet, st, i + 1)

\* the while loop of data_received: one frame per TERMINATOR in the buffer
RECURSIVE SplitFrames(_, _)
SplitFrames(buf, st) ==
    IF ~Contains(TERMINATOR, buf)
    THEN [buffer |-> buf, last |-> st.last, out |-> st.out]
    ELSE SplitFrames(SplitTail(TERMINATOR, buf),
                     ScanHeadings(SplitHead(TERMINATOR, buf), st, 1))

\* a data_received that frames each call's bytes by themselves
ReceivedWithoutBuffer(buf, last, data) ==
    SplitFrames(data, [last |-> last, out |-> <<>>])

\* data_received(data) on a reader with this buffer and slot
Received(buf, last, data) == SplitFrames(buf \o data, [last |-> last, out |-> <<>>])

(***************************************************************************)
(* What the device puts on the serial line.  A float is injected as its    *)
(* bit pattern; the patterns below are the ones whose bytes matter to the  *)
(* framer.                                                                 *)
(***************************************************************************)
\* 0.0
W0 == UnpackFloat(<<0, 0, 0, 0>>)

\* 1.0
W1 == UnpackFloat(<<0, 0, 128, 63>>)

\* a float whose bytes are tab, CR, LF, 0
WTerm == UnpackFloat(TERMINATOR \o <<0>>)

\* a float whose bytes spell hmd:
WHmd == UnpackFloat(HMD)

\* the largest float index at which a special pattern is injected
MaxPos == 2

\* the largest number of bytes that follow a complete payload
MaxExtra == 2

\* the largest number of data_received calls that deliver one injection
MaxCalls == 2

HeadingSet == {HEADINGS[i] : i \in 1..Len(HEADINGS)}

\* the values of header h: every float is base but the p-th, which is w;
\* the flags alternate from True when base is 1.0 and are all False otherwise
Vals(h, base, w, p) ==
    [floats |-> [i \in 1..FloatCount(h) |-> IF i = p THEN w ELSE base],
     flags  |-> [i \in 1..BoolCount(h) |-> base = W1 /\ i % 2 = 1]]

CleanVals(h) == {Vals(h, base, base, 1) : base \in {W0, W1}}

ValidVals(h) ==
    CleanVals(h) \cup {Vals(h, W0, w, p) : w \in {WTerm, WHmd}, p \in 1..MaxPos}

\* byte strings that hold no marker and no terminator
Garbage == {<<>>, <<1, 2, 3>>, <<104, 109, 100>>, <<9, 13, 7, 108, 99>>}

Stream(kind, h, v, h2, v2, bytes) ==
    [kind |-> kind, header |-> h, vals |-> v, header2 |-> h2, vals2 |-> v2,
     bytes |-> bytes, calls |-> 0]

ValidFrame(h, v) == h \o Pack(v) \o TERMINATOR

\* marker + payload of the exact length + terminator
ValidStreams ==
    UNION {{Stream("valid", h, v, <<>>, NoVals, ValidFrame(h, v)) :
                v \in ValidVals(h)} : h \in HeadingSet}

ShortFrame(h, v, n) == h \o Take(Pack(v), n) \o TERMINATOR

\* marker + the first n bytes of a payload, n less than its length, + terminator
ShortStreams ==
    UNION {{Stream("short", h, v, <<>>, NoVals, ShortFrame(h, v, n)) :
                v \in CleanVals(h), n \in {0, 1, CalcSize(h) - 1}} : h \in HeadingSet}

\* marker + payload + 1..MaxExtra more bytes + terminator
LongStreams ==
    UNION {{Stream("long", h, v, <<>>, NoVals,
                   h \o Pack(v) \o [i \in 1..e |-> 7] \o TERMINATOR) :
                v \in CleanVals(h), e \in 1..MaxExtra} : h \in HeadingSet}

\* bytes without a marker + terminator
GarbageStreams ==
    {Stream("garbage", <<>>, NoVals, <<>>, NoVals, g \o TERMINATOR) : g \in Garbage}

\* two markers, each with its payload, in one frame
MultiStreams ==
    UNION {{Stream("multi", h, Vals(h, W0, W0, 1), h2, Vals(h2, W1, W1, 1),
                   h \o Pack(Vals(h, W0, W0, 1))
                     \o h2 \o Pack(Vals(h2, W1, W1, 1)) \o TERMINATOR) :
                h2 \in HeadingSet \ {h}} : h \in HeadingSet}

\* a malformed frame (too short, or without a marker), then a valid frame
Malformed ==
    {ShortFrame(LC, Vals(LC, W1, W1, 1), CalcSize(LC) - 1),
     ShortFrame(HMD, Vals(HMD, W1, W1, 1), 1),
     <<1, 2, 3>> \o TERMINATOR,
     <<104, 109, 100>> \o TERMINATOR}

ResyncStreams ==
    UNION {{Stream("resync", h, v, <<>>, NoVals, m \o ValidFrame(h, v)) :
                v \in {Vals(h, W1, W1, 1), Vals(h, W0, WTerm, 1)}, m \in Malformed} :
           h \in HeadingSet}

Streams ==
    ValidStreams \cup ShortStreams \cup LongStreams \cup GarbageStreams
        \cup MultiStreams \cup ResyncStreams

NoStream == Stream("none", <<>>, NoVals, <<>>, NoVals, <<>>)

(***************************************************************************)
(* The framer's state machine.                                             *)
(***************************************************************************)
HeadingIndex(h) == CHOOSE i \in 1..Len(HEADINGS) : HEADINGS[i] = h

\* the last packet of sequence ps stored under HEADINGS[i], or else old
LatestOf(i, ps, old) ==
    LET at == {k \in 1..Len(ps) : ps[k].header = HEADINGS[i]}
    IN  IF at = {} THEN old ELSE ps[CHOOSE k \in at : \A j \in at : j <= k]

InitFramer ==
    /\ buffer = <<>>
    /\ last_packet = NoPacket
    /\ pending = <<>>
    /\ feed = NoStream
    /\ out = <<>>
    /\ lastByHeader = [i \in 1..Len(HEADINGS) |-> NoPacket]

\* the device writes one stream to the serial line
Inject(s) ==
    /\ pending = <<>>
    /\ pending' = s.bytes
    /\ feed' = s
    /\ out' = <<>>
    /\ UNCHANGED <<buffer, last_packet, lastByHeader>>
    /\ UNCHANGED <<trackerVars, filterVars, binaryVars>>

\* the reader thread hands the next n bytes of the line to data_received
DataReceived(n) ==
    /\ pending # <<>>
    /\ LET r == Received(buffer, last_packet, Take(pending, n))
       IN  /\ buffer' = r.buffer
           /\ last_packet' = r.last
           /\ out' = out \o r.out
           /\ lastByHeader' =
                  [i \in 1..Len(HEADINGS) |-> LatestOf(i, r.out, lastByHeader[i])]
    /\ pending' = Drop(pending, n)
    /\ feed' = [feed EXCEPT !.calls = @ + 1]
    /\ UNCHANGED <<trackerVars, filterVars, binaryVars>>

\* the sizes of the next read: everything, or a part when calls remain
ReadSizes ==
    {Len(pending)} \cup
        {n \in {2, Len(pending) - 1} :
            n >= 1 /\ n < Len(pending) /\ feed.calls + 1 < MaxCalls} \cup
        {n \in {6} : n < Len(pending) /\ feed.calls = 0 /\ MaxCalls > 1}

NextFramer ==
    \/ \E s \in Streams : Inject(s)
    \/ \E n \in ReadSizes : DataReceived(n)

\* the injection has been received whole
Delivered == feed.kind # "none" /\ pending = <<>>

(***************************************************************************)
(* BlobTracker.  Floats are abstracted to their class: "Z" zero, "P"       *)
(* finite and not zero, "I" infinite, "N" NaN; numpy scalar arithmetic     *)
(* raises nothing and follows IEEE 754 on these classes.                   *)
(***************************************************************************)
\* the number of colour masks, one channel each
NumChannels == 1

\* the most update() calls one wait loop makes before its 3 seconds are over
MaxPolls == 1

\* the most close() calls the caller makes
MaxCloses == 2

Channels == 1..NumChannels

Mul(a, b) ==
    IF a = "N" \/ b = "N" THEN "N"
    ELSE IF (a = "Z" /\ b = "I") \/ (a = "I" /\ b = "Z") THEN "N"
    ELSE IF a = "Z" \/ b = "Z" THEN "Z"
    ELSE IF a = "I" \/ b = "I" THEN "I"
    ELSE "P"

Div(a, b) ==
    IF a = "N" \/ b = "N" THEN "N"
    ELSE IF (a = "Z" /\ b = "Z") \/ (a = "I" /\ b = "I") THEN "N"
    ELSE IF b = "Z" THEN "I"
    ELSE IF a = "Z" \/ b = "I" THEN "Z"
    ELSE IF a = "I" THEN "I"
    ELSE "P"

\* the sum of two values that are not negative
Add(a, b) ==
    IF a = "N" \/ b = "N" THEN "N"
    ELSE IF a = "I" \/ b = "I" THEN "I"
    ELSE IF a = "Z" /\ b = "Z" THEN "Z"
    ELSE "P"

\* np.sqrt(1 + x ** 2)
Sqrt1p(x) == IF x \in {"N", "I"} THEN x ELSE "P"

\* what find_blob returns: nothing, or a centre and a radius; the centre is
\* at the image centre or off it, the radius is zero or not
NoBlob == [at |-> "none", w |-> "Z"]

Blobs == {[at |-> a, w |-> w] : a \in {"centre", "off"}, w \in {"Z", "P"}}

\* the row solve_blob_poses computes from a blob, lines 620 to 647
Triangulate(b) ==
    LET f_px == "P"
        x_px == IF b.at = "centre" THEN "Z" ELSE "P"
        y_px == x_px
        a_px == b.w
        l_px == Add(x_px, y_px)
        k    == Div(l_px, f_px)
        j    == Div(Add(l_px, a_px), f_px)
        \* j - k is a_px / f_px
        l    == Div(Div(a_px, f_px), Add("P", Mul(j, k)))
        d_cm == Div(Mul("P", Sqrt1p(l)), l)
        fl   == Div(f_px, l_px)
        z_cm == Div(Mul(d_cm, fl), Sqrt1p(fl))
        l_cm == Mul(z_cm, k)
        x_cm == Div(Mul(l_cm, x_px), l_px)
        y_cm == Div(Mul(l_cm, y_px), l_px)
    IN  <<Div(x_cm, "P"), Div(y_cm, "P"), Div(z_cm, "P")>>

\* the row of every blob
TriangulateRows == [b \in Blobs |-> Triangulate(b)]

\* a test that finds every row finite
HasNanNever(row) == FALSE

\* has_nan_in_pose
HasNanInPose(row) == \E i \in 1..Len(row) : row[i] \in {"N", "I"}

\* a row of poses: the classes of x, y, z, and where the row came from
Row(cls, src) == [cls |-> cls, src |-> src]

InitTracker ==
    /\ alive = TRUE
    /\ can_track = "unset"
    /\ vs = "None"
    /\ lock = "free"
    /\ poses = [c \in Channels |-> Row(<<"Z", "Z", "Z">>, "init")]
    /\ kalmanFilterz = [c \in Channels |-> FALSE]
    /\ wpc = "new"
    /\ site = "none"
    /\ polls = 0
    /\ frame = "None"
    /\ key = 0
    /\ blob = NoBlob
    /\ mpc = "idle"
    /\ closeFrom = "none"
    /\ closes = 0
    /\ snapshot = [c \in Channels |-> Row(<<"Z", "Z", "Z">>, "init")]
    /\ hist = [startFailed |-> FALSE, loopFailed |-> FALSE, acqAfterFail |-> FALSE,
               closeReleased |-> FALSE, useAfterRelease |-> FALSE,
               joinTimedOut |-> FALSE, released |-> 0, enterResult |-> "none",
               endOnNone |-> FALSE, lateRelease |-> FALSE, closeRaised |-> FALSE,
               closeReturned |-> 0, returned |-> "none", mutatedSince |-> FALSE,
               writeAfterReturn |-> FALSE, fedNan |-> FALSE,
               finiteSeen |-> [c \in Channels |-> FALSE], stopInLoop |-> FALSE,
               iterAfterStop |-> FALSE, trueAfterStop |-> FALSE,
               rawOverFilter |-> [c \in Channels |-> FALSE], rawReturned |-> FALSE]

Bool(b) == IF b THEN "True" ELSE "False"

workerLocals == <<site, polls, frame, key, blob>>

mainVars == <<mpc, closeFrom, closes, snapshot, lock>>

\* the worker touches the frame source its attribute refers to
Touch(h) ==
    [h EXCEPT !.useAfterRelease = @ \/ (vs = "ended" /\ h.closeReleased)]

----------------------------------------------------------------------------
\* at_start, line 534: self._vs = read_updates(self.cam_index)
AtStartOpen ==
    /\ wpc = "at_start"
    /\ vs' = "open"
    /\ wpc' = "try_begin"
    /\ site' = "at_start"
    /\ UNCHANGED <<alive, can_track, poses, kalmanFilterz, polls, frame, key, blob,
                   hist, mainVars>>
    /\ UNCHANGED <<framerVars, filterVars, binaryVars>>

\* _try_get_frame raises (self._vs is None, in the try and in the handler);
\* h is the history so far
TryRaise(h) ==
    /\ IF site = "at_start"
       THEN \* nothing catches it in run(): the thread dies
            /\ wpc' = "crashed"
            /\ hist' = h
            /\ UNCHANGED alive
       ELSE IF site = "run"
       THEN \* lines 584 to 587
            /\ wpc' = "done"
            /\ alive' = FALSE
            /\ hist' = h
       ELSE \* lines 599 to 601: break
            /\ wpc' = "exit_alive"
            /\ hist' = [h EXCEPT !.loopFailed = TRUE]
            /\ UNCHANGED alive
    /\ site' = "none"
    /\ UNCHANGED <<can_track, frame, key>>

\* a _try_get_frame whose handler leaves can_track True
CanTrackAlways(ok) == "True"

\* _try_get_frame, lines 563 and 569: can_track is True after the try, False
\* after the handler
CanTrackOf(ok) == Bool(ok)

\* _try_get_frame returns (frame, can_track) to its caller, which assigns
TryReturn(ok, h) ==
    /\ can_track' = CanTrackOf(ok)
    /\ frame' = IF ok THEN "frame" ELSE "None"
    /\ IF site = "at_start"
       THEN \* lines 536 to 544
            /\ wpc' = IF ok THEN "try_begin" ELSE "as_end"
            /\ site' = IF ok THEN "run" ELSE "none"
            /\ hist' = h
            /\ UNCHANGED <<alive, key>>
       ELSE IF site = "run"
       THEN \* lines 579 to 587
            /\ wpc' = IF ok THEN "loop_check" ELSE "done"
            /\ alive' = IF ok THEN alive ELSE FALSE
            /\ site' = "none"
            /\ hist' = h
            /\ UNCHANGED key
       ELSE \* line 591, then solve_blob_poses(frame)
            /\ wpc' = "solve_find"
            /\ key' = 1
            /\ site' = "none"
            /\ hist' = [h EXCEPT !.loopFailed = @ \/ ~ok,
                                 !.trueAfterStop = @ \/ (ok /\ h.stopInLoop)]
            /\ UNCHANGED alive

\* _try_get_frame, line 555: the first self._vs.update()
TryBegin ==
    /\ wpc = "try_begin"
    /\ polls' = 0
    /\ IF vs = "None"
       THEN TryRaise(hist)
       ELSE /\ wpc' = "try_poll"
            /\ hist' = [Touch(hist) EXCEPT
                           !.acqAfterFail = @ \/ (site = "loop" /\ hist.loopFailed)]
            /\ UNCHANGED <<alive, can_track, frame, site, key>>
    /\ UNCHANGED <<vs, poses, kalmanFilterz, blob, mainVars>>
    /\ UNCHANGED <<framerVars, filterVars, binaryVars>>

\* _try_get_frame, lines 560 and 561: no frame yet, update() again
TryPoll ==
    /\ wpc = "try_poll"
    /\ polls < MaxPolls
    /\ polls' = polls + 1
    /\ IF vs = "None"
       THEN TryRaise(hist)
       ELSE /\ hist' = Touch(hist)
            /\ UNCHANGED <<wpc, alive, can_track, frame, site, key>>
    /\ UNCHANGED <<vs, poses, kalmanFilterz, blob, mainVars>>
    /\ UNCHANGED <<framerVars, filterVars, binaryVars>>

\* _try_get_frame, lines 562 to 572: the frame is there, or the read fails
TryEnd ==
    /\ wpc = "try_poll"
    /\ IF vs = "None"
       THEN TryRaise(hist)
       ELSE \E ok \in BOOLEAN : TryReturn(ok, Touch(hist))
    /\ UNCHANGED <<vs, poses, kalmanFilterz, polls, blob, mainVars>>
    /\ UNCHANGED <<framerVars, filterVars, binaryVars>>

\* at_start, line 540: self._vs.end()
AtStartEnd ==
    /\ wpc = "as_end"
    /\ IF vs = "None"
       THEN \* close() has cleared it: AttributeError, the thread dies
            /\ wpc' = "crashed"
            /\ hist' = [hist EXCEPT !.startFailed = TRUE, !.endOnNone = TRUE]
            /\ UNCHANGED vs
       ELSE /\ vs' = "ended"
            /\ wpc' = "as_clear"
            /\ hist' = [hist EXCEPT !.released = @ + 1]
    /\ UNCHANGED <<alive, can_track, poses, kalmanFilterz, workerLocals, mainVars>>
    /\ UNCHANGED <<framerVars, filterVars, binaryVars>>

\* at_start, lines 541 and 542: self._vs = None, and the RuntimeError that
\* nothing in run() catches
AtStartRaise ==
    /\ wpc = "as_clear"
    /\ vs' = "None"
    /\ wpc' = "crashed"
    /\ hist' = [hist EXCEPT !.startFailed = TRUE]
    /\ UNCHANGED <<alive, can_track, poses, kalmanFilterz, workerLocals, mainVars>>
    /\ UNCHANGED <<framerVars, filterVars, binaryVars>>

\* a loop that goes on while can_track is set
LoopConditionTrackOnly(a, c) == c = "True"

\* line 589: self.alive and self.can_track
LoopCondition(a, c) == a /\ c = "True"

\* the worker is in the while loop of run()
InLoop ==
    \/ wpc \in {"loop_check", "solve_find", "solve_write", "solve_filter", "loop_tail"}
    \/ wpc \in {"try_begin", "try_poll"} /\ site = "loop"

\* run, line 589: while self.alive and self.can_track
LoopCheck ==
    /\ wpc = "loop_check"
    /\ IF LoopCondition(alive, can_track)
       THEN /\ wpc' = "try_begin"
            /\ site' = "loop"
            /\ hist' = [hist EXCEPT !.iterAfterStop = @ \/ hist.stopInLoop]
       ELSE /\ wpc' = "exit_alive"
            /\ site' = "none"
            /\ UNCHANGED hist
    /\ UNCHANGED <<alive, can_track, vs, poses, kalmanFilterz, polls, frame, key,
                   blob, mainVars>>
    /\ UNCHANGED <<framerVars, filterVars, binaryVars>>

\* solve_blob_poses is over, or goes on with the next channel
AfterChannel == IF key < NumChannels THEN "solve_find" ELSE "loop_tail"

\* solve_blob_poses, line 613: blob = b.find_blob(image); on no frame the
\* detector raises or finds nothing
SolveFind ==
    /\ wpc = "solve_find"
    /\ \/ /\ frame = "None"
          /\ wpc' = "exit_alive"
          /\ UNCHANGED <<key, blob>>
       \/ /\ blob' = NoBlob
          /\ wpc' = AfterChannel
          /\ key' = IF key < NumChannels THEN key + 1 ELSE key
       \/ /\ frame = "frame"
          /\ \E b \in Blobs : blob' = b
          /\ wpc' = "solve_write"
          /\ UNCHANGED key
    /\ UNCHANGED <<alive, can_track, vs, poses, kalmanFilterz, site, polls, frame,
                   hist, mainVars>>
    /\ UNCHANGED <<framerVars, filterVars, binaryVars>>

\* solve_blob_poses, line 647: self.poses[key] = np.array((x_cm / 100, ...))
SolveWrite ==
    /\ wpc = "solve_write"
    /\ poses' = [poses EXCEPT ![key] = Row(TriangulateRows[blob], "raw")]
    /\ wpc' = "solve_filter"
    /\ hist' = [hist EXCEPT
           !.writeAfterReturn = @ \/ hist.returned # "none",
           !.rawOverFilter = [@ EXCEPT ![key] =
               /\ kalmanFilterz[key]
               /\ \A i \in 1..3 : TriangulateRows[blob][i] \in {"Z", "P"}]]
    /\ UNCHANGED <<alive, can_track, vs, kalmanFilterz, workerLocals, mainVars>>
    /\ UNCHANGED <<framerVars, filterVars, binaryVars>>

\* solve_blob_poses, lines 649 to 657
SolveFilter ==
    /\ wpc = "solve_filter"
    /\ IF HasNanInPose(poses[key].cls)
       THEN UNCHANGED <<poses, kalmanFilterz>>
       ELSE IF ~kalmanFilterz[key]
       THEN /\ kalmanFilterz' = [kalmanFilterz EXCEPT ![key] = TRUE]
            /\ UNCHANGED poses
       ELSE /\ poses' = [poses EXCEPT ![key] = Row(<<"P", "P", "P">>, "kalman")]
            /\ UNCHANGED kalmanFilterz
    /\ wpc' = AfterChannel
    /\ key' = IF key < NumChannels THEN key + 1 ELSE key
    /\ LET row    == poses[key].cls
           finite == \A i \in 1..Len(row) : row[i] \in {"Z", "P"}
       IN  hist' = [hist EXCEPT
               !.fedNan = @ \/ (~HasNanInPose(row) /\ ~finite),
               !.rawOverFilter = [@ EXCEPT ![key] = FALSE],
               !.finiteSeen = [@ EXCEPT ![key] = @ \/ finite]]
    /\ UNCHANGED <<alive, can_track, vs, site, polls, frame, blob, mainVars>>
    /\ UNCHANGED <<framerVars, filterVars, binaryVars>>

\* run, lines 596 and 597: if not self.can_track: break
LoopTail ==
    /\ wpc = "loop_tail"
    /\ wpc' = IF can_track # "True" THEN "exit_alive" ELSE "loop_check"
    /\ UNCHANGED <<alive, can_track, vs, poses, kalmanFilterz, workerLocals, hist,
                   mainVars>>
    /\ UNCHANGED <<framerVars, filterVars, binaryVars>>

\* run, line 603: self.alive = False
ExitAlive ==
    /\ wpc = "exit_alive"
    /\ alive' = FALSE
    /\ wpc' = "exit_track"
    /\ UNCHANGED <<can_track, vs, poses, kalmanFilterz, workerLocals, hist, mainVars>>
    /\ UNCHANGED <<framerVars, filterVars, binaryVars>>

\* run, line 604: self.can_track = False
ExitTrack ==
    /\ wpc = "exit_track"
    /\ can_track' = "False"
    /\ wpc' = "done"
    /\ UNCHANGED <<alive, vs, poses, kalmanFilterz, workerLocals, hist, mainVars>>
    /\ UNCHANGED <<framerVars, filterVars, binaryVars>>

Worker ==
    \/ AtStartOpen
    \/ TryBegin
    \/ TryPoll
    \/ TryEnd
    \/ AtStartEnd
    \/ AtStartRaise
    \/ LoopCheck
    \/ SolveFind
    \/ SolveWrite
    \/ SolveFilter
    \/ LoopTail
    \/ ExitAlive
    \/ ExitTrack

----------------------------------------------------------------------------
workerVars == <<wpc, site, polls, frame, key, blob>>

\* the thread has run to its end, by a return or by an exception
Finished == wpc \in {"done", "crashed"}

\* Thread.start(), called directly
Start ==
    /\ mpc = "idle"
    /\ wpc = "new"
    /\ wpc' = "at_start"
    /\ UNCHANGED <<alive, can_track, vs, poses, kalmanFilterz, site, polls, frame,
                   key, blob, hist, mainVars>>
    /\ UNCHANGED <<framerVars, filterVars, binaryVars>>

\* __enter__, line 677: self.start()
EnterStart ==
    /\ mpc = "idle"
    /\ wpc = "new"
    /\ wpc' = "at_start"
    /\ mpc' = "enter_check"
    /\ UNCHANGED <<alive, can_track, vs, poses, kalmanFilterz, site, polls, frame,
                   key, blob, hist, closeFrom, closes, snapshot, lock>>
    /\ UNCHANGED <<framerVars, filterVars, binaryVars>>

\* __enter__, lines 678 to 682: if not self.alive: close and raise
EnterCheck ==
    /\ mpc = "enter_check"
    /\ IF alive
       THEN /\ mpc' = "idle"
            /\ hist' = [hist EXCEPT !.enterResult = "returned"]
            /\ UNCHANGED <<closeFrom, closes>>
       ELSE /\ mpc' = "close_lock"
            /\ closeFrom' = "enter"
            /\ closes' = closes + 1
            /\ UNCHANGED hist
    /\ UNCHANGED <<alive, can_track, vs, poses, kalmanFilterz, workerVars, snapshot,
                   lock>>
    /\ UNCHANGED <<framerVars, filterVars, binaryVars>>

\* close() is called
Close ==
    /\ mpc = "idle"
    /\ closes < MaxCloses
    /\ mpc' = "close_lock"
    /\ closeFrom' = "caller"
    /\ closes' = closes + 1
    /\ UNCHANGED <<alive, can_track, vs, poses, kalmanFilterz, workerVars, snapshot,
                   lock, hist>>
    /\ UNCHANGED <<framerVars, filterVars, binaryVars>>

\* close, line 667: with self._lock
CloseLock ==
    /\ mpc = "close_lock"
    /\ lock = "free"
    /\ lock' = "caller"
    /\ mpc' = "stop_alive"
    /\ UNCHANGED <<alive, can_track, vs, poses, kalmanFilterz, workerVars, snapshot,
                   closeFrom, closes, hist>>
    /\ UNCHANGED <<framerVars, filterVars, binaryVars>>

\* stop, line 661: self.alive = False
StopAlive ==
    /\ mpc = "stop_alive"
    /\ alive' = FALSE
    /\ mpc' = "stop_track"
    /\ hist' = [hist EXCEPT !.stopInLoop = @ \/ InLoop]
    /\ UNCHANGED <<can_track, vs, poses, kalmanFilterz, workerVars, snapshot, lock,
                   closeFrom, closes>>
    /\ UNCHANGED <<framerVars, filterVars, binaryVars>>

\* stop, line 662: self.can_track = False
StopTrack ==
    /\ mpc = "stop_track"
    /\ can_track' = "False"
    /\ mpc' = "join"
    /\ UNCHANGED <<alive, vs, poses, kalmanFilterz, workerVars, snapshot, lock,
                   closeFrom, closes, hist>>
    /\ UNCHANGED <<framerVars, filterVars, binaryVars>>

\* close() is left, by its return or by an exception (raised); the
\* __enter__ that called it raises
CloseLeave(raised) ==
    /\ lock' = "free"
    /\ mpc' = "idle"
    /\ closeFrom' = "none"
    /\ hist' = [hist EXCEPT
                   !.enterResult = IF closeFrom = "enter" THEN "raised" ELSE @,
                   !.closeRaised = @ \/ raised,
                   !.endOnNone = @ \/ (raised /\ mpc = "close_end"),
                   !.closeReturned = IF raised THEN @ ELSE closes]

\* stop, line 663: self.join(4) returns once the thread has ended; on a
\* thread that was never started it raises RuntimeError
Join ==
    /\ mpc = "join"
    /\ wpc = "new" \/ Finished
    /\ IF wpc = "new"
       THEN CloseLeave(TRUE)
       ELSE mpc' = "close_check" /\ UNCHANGED <<lock, closeFrom, hist>>
    /\ UNCHANGED <<alive, can_track, vs, poses, kalmanFilterz, workerVars, snapshot,
                   closes>>
    /\ UNCHANGED <<framerVars, filterVars, binaryVars>>

\* stop, line 663: the 4 seconds of self.join(4) are over and the thread
\* is still running
JoinTimeout ==
    /\ mpc = "join"
    /\ wpc # "new" /\ ~Finished
    /\ mpc' = "close_check"
    /\ hist' = [hist EXCEPT !.joinTimedOut = TRUE]
    /\ UNCHANGED <<alive, can_track, vs, poses, kalmanFilterz, workerVars, snapshot,
                   closes, lock, closeFrom>>
    /\ UNCHANGED <<framerVars, filterVars, binaryVars>>

\* close, line 670: if self._vs is not None
CloseCheck ==
    /\ mpc = "close_check"
    /\ IF vs # "None"
       THEN mpc' = "close_end" /\ UNCHANGED <<lock, closeFrom, hist>>
       ELSE CloseLeave(FALSE)
    /\ UNCHANGED <<alive, can_track, vs, poses, kalmanFilterz, workerVars, snapshot,
                   closes>>
    /\ UNCHANGED <<framerVars, filterVars, binaryVars>>

\* close, line 672: self._vs.end()
CloseEnd ==
    /\ mpc = "close_end"
    /\ IF vs = "None"
       THEN CloseLeave(TRUE) /\ UNCHANGED vs
       ELSE /\ vs' = "ended"
            /\ mpc' = "close_clear"
            /\ hist' = [hist EXCEPT !.released = @ + 1, !.closeReleased = TRUE,
                                    !.lateRelease = @ \/ closes > 1]
            /\ UNCHANGED <<lock, closeFrom>>
    /\ UNCHANGED <<alive, can_track, poses, kalmanFilterz, workerVars, snapshot,
                   closes>>
    /\ UNCHANGED <<framerVars, filterVars, binaryVars>>

\* close, lines 673 and 674: del self._vs; self._vs = None
CloseClear ==
    /\ mpc = "close_clear"
    /\ vs' = "None"
    /\ CloseLeave(FALSE)
    /\ UNCHANGED <<alive, can_track, poses, kalmanFilterz, workerVars, snapshot,
                   closes>>
    /\ UNCHANGED <<framerVars, filterVars, binaryVars>>

\* an array that shares the data of obj
NdarrayView(obj) == obj

\* ndarray.copy(): a new array that owns its data, whatever obj is
NdarrayCopy(obj) == "copy"

\* get_poses(): return self.poses.copy(); snapshot is what the returned
\* array held at the return, hist.returned is whose data it uses
GetPoses ==
    /\ mpc = "idle"
    /\ snapshot' = poses
    /\ hist' = [hist EXCEPT
           !.returned = NdarrayCopy("poses"),
           !.mutatedSince = FALSE,
           !.writeAfterReturn = FALSE,
           !.rawReturned = @ \/ \E c \in Channels : hist.rawOverFilter[c]]
    /\ UNCHANGED <<alive, can_track, vs, lock, poses, kalmanFilterz, workerVars, mpc,
                   closeFrom, closes>>
    /\ UNCHANGED <<framerVars, filterVars, binaryVars>>

\* what the array get_poses() returned holds now
ReturnedNow == IF hist.returned = "poses" THEN poses ELSE snapshot

\* the caller assigns a row of the array get_poses() returned
MutateReturned ==
    /\ mpc = "idle"
    /\ hist.returned # "none"
    /\ \E c \in Channels :
          /\ snapshot' = [snapshot EXCEPT ![c] = Row(<<"P", "P", "P">>, "caller")]
          /\ poses' = IF hist.returned = "poses"
                      THEN [poses EXCEPT ![c] = Row(<<"P", "P", "P">>, "caller")]
                      ELSE poses
    /\ hist' = [hist EXCEPT !.mutatedSince = TRUE]
    /\ UNCHANGED <<alive, can_track, vs, lock, kalmanFilterz, workerVars, mpc,
                   closeFrom, closes>>
    /\ UNCHANGED <<framerVars, filterVars, binaryVars>>

Caller ==
    \/ Start
    \/ EnterStart
    \/ EnterCheck
    \/ Close
    \/ CloseLock
    \/ StopAlive
    \/ StopTrack
    \/ Join
    \/ JoinTimeout
    \/ CloseCheck
    \/ CloseEnd
    \/ CloseClear
    \/ GetPoses
    \/ MutateReturned

NextTracker == Worker \/ Caller

(***************************************************************************)
(* LazyKalman.  A 3-vector is abstracted to one coordinate, an integer of  *)
(* Obs; 0 is the zero vector.  A covariance is abstracted to its level:    *)
(* 0 is np.zeros(3), and an update step raises it towards the steady       *)
(* state.  pykalman's filter_update moves the mean towards the observation *)
(* from the mean it is given.                                              *)
(***************************************************************************)
\* the observations and initial states
Obs == {0, 1, 2}

\* the largest observation count given to the constructor or to calibrate()
MaxCount == 2

\* the most apply() calls on one filter
MaxApplies == 4

\* the most calibrate() calls after the construction
MaxCalibrations == 1

\* the level of the steady-state covariance
MaxCov == 2

\* KalmanFilter.filter_update: the mean moves from the given mean towards the
\* observation, the covariance towards the steady state
FilterUpdate(mean, cov, obz) ==
    [mean |-> IF mean < obz THEN mean + 1 ELSE IF mean > obz THEN mean - 1 ELSE mean,
     cov  |-> Min(cov + 1, MaxCov)]

\* KalmanFilter.filter: a forward pass over the observations from the
\* filter's initial state
RECURSIVE FilterPass(_, _)
FilterPass(st, obzs) ==
    IF obzs = <<>> THEN st
    ELSE FilterPass(FilterUpdate(st.mean, st.cov, Head(obzs)), Tail(obzs))

\* an apply that replaces the covariance in both modes
CovAlwaysReplaced(learning, old, new) == new

\* apply, lines 243 to 256: the covariance is taken from the update's result
\* with do_learning, and left as it is without
CovAfterUpdate(learning, old, new) == IF learning THEN new ELSE old

\* line 258: if self._calibration_countdown
Truthy(n) == n # 0

\* a re-fit that leaves the buffer as it is
RunCalibrationKeepBuffer(obzs, init) ==
    LET f == FilterPass([mean |-> init, cov |-> 0], obzs)
    IN  [x_now |-> f.mean, p_now |-> f.cov, calibration_observations |-> obzs]

\* _run_calibration: em over the buffer, then the last mean and covariance
\* of a pass over it, then the buffer is emptied
RunCalibration(obzs, init) ==
    LET f == FilterPass([mean |-> init, cov |-> 0], obzs)
    IN  [x_now |-> f.mean, p_now |-> f.cov, calibration_observations |-> <<>>]

\* no LazyKalman yet
InitFilter ==
    /\ constructed = FALSE
    /\ initial_state_mean = 0
    /\ do_learning = TRUE
    /\ calibration_countdown = 0
    /\ calibration_observations = <<>>
    /\ em_iter = 0
    /\ x_now = 0
    /\ p_now = 0
    /\ khist = [applies |-> 0, refits |-> 0, calibrations |-> 0, armed |-> 0,
                applied |-> <<>>, refitsSinceArm |-> 0, firstStart |-> -1,
                lastObs |-> 0, lastLearning |-> TRUE, refitExact |-> TRUE]

\* calibrate, lines 284 and 285
CalibrateTo(observations, em) ==
    /\ calibration_countdown' = observations
    /\ em_iter' = em

\* LazyKalman(init_state, np.eye(3), np.eye(3), n_iter, train_size)
Construct(init_state, n_iter, train_size) ==
    /\ ~constructed
    /\ constructed' = TRUE
    /\ initial_state_mean' = init_state
    /\ do_learning' = TRUE
    /\ calibration_observations' = <<>>
    /\ CalibrateTo(train_size, n_iter)
    /\ x_now' = 0
    /\ p_now' = 0
    /\ khist' = [khist EXCEPT !.armed = train_size]
    /\ UNCHANGED <<framerVars, trackerVars, binaryVars>>

\* LazyKalman.apply(obz)
Apply(obz) ==
    /\ constructed
    /\ khist.applies < MaxApplies
    /\ LET r        == FilterUpdate(x_now, p_now, obz)
           counting == Truthy(calibration_countdown)
           obzs     == IF counting THEN Append(calibration_observations, obz)
                       ELSE calibration_observations
           count    == IF counting THEN calibration_countdown - 1
                       ELSE calibration_countdown
           refit    == counting /\ count = 0
           fit      == RunCalibration(obzs, initial_state_mean)
           since    == Append(khist.applied, obz)
       IN  /\ x_now' = IF refit THEN fit.x_now ELSE r.mean
           /\ p_now' = IF refit THEN fit.p_now
                       ELSE CovAfterUpdate(do_learning, p_now, r.cov)
           /\ calibration_observations' =
                  IF refit THEN fit.calibration_observations ELSE obzs
           /\ calibration_countdown' = count
           /\ khist' = [khist EXCEPT
                  !.applies = @ + 1,
                  !.refits = IF refit THEN @ + 1 ELSE @,
                  !.refitsSinceArm = IF refit THEN @ + 1 ELSE @,
                  !.applied = since,
                  !.firstStart = IF khist.applies = 0 THEN x_now ELSE @,
                  !.lastObs = obz,
                  !.lastLearning = do_learning,
                  !.refitExact = @ /\ (refit => obzs = since /\ Len(obzs) = khist.armed)]
    /\ UNCHANGED <<constructed, initial_state_mean, do_learning, em_iter>>
    /\ UNCHANGED <<framerVars, trackerVars, binaryVars>>

\* LazyKalman.calibrate(observations, em_iter)
Calibrate(observations, em) ==
    /\ constructed
    /\ khist.calibrations < MaxCalibrations
    /\ CalibrateTo(observations, em)
    /\ khist' = [khist EXCEPT !.calibrations = @ + 1, !.armed = observations,
                              !.applied = <<>>, !.refitsSinceArm = 0]
    /\ UNCHANGED <<constructed, initial_state_mean, do_learning,
                   calibration_observations, x_now, p_now>>
    /\ UNCHANGED <<framerVars, trackerVars, binaryVars>>

\* set_kalman_learning, lines 548 and 549: the attribute is assigned
SetLearning(b) ==
    /\ constructed
    /\ do_learning # b
    /\ do_learning' = b
    /\ UNCHANGED <<constructed, initial_state_mean, calibration_countdown,
                   calibration_observations, em_iter, x_now, p_now, khist>>
    /\ UNCHANGED <<framerVars, trackerVars, binaryVars>>

NextFilter ==
    \/ \E init_state \in Obs, n_iter \in {5}, train_size \in 0..MaxCount :
          Construct(init_state, n_iter, train_size)
    \/ \E obz \in Obs : Apply(obz)
    \/ \E observations \in 0..MaxCount, em \in {10} : Calibrate(observations, em)
    \/ \E b \in BOOLEAN : SetLearning(b)

(***************************************************************************)
(* SerialReaderBinary.  Fields are one-byte ("b") or two-byte ("h")        *)
(* integers, the bytes of a packet are 0 or 1.                             *)
(***************************************************************************)
\* the most fields of a packet
MaxFields == 2

\* the most bytes of a packet handed to handle_packet
MaxPacketLen == 4

\* the most handle_packet calls on one reader
MaxHandled == 2

StructTypes == {"b", "h"}

\* struct.calcsize of one field
TypeSize(t) == IF t = "b" THEN 1 ELSE 2

\* struct.calcsize(self._struct_form)
FormSize(form) == form.count * TypeSize(form.type)

\* a little-endian integer
RECURSIVE UnpackInt(_)
UnpackInt(bs) == IF bs = <<>> THEN 0 ELSE Head(bs) + 256 * UnpackInt(Tail(bs))

\* struct.unpack_from(form, packet): the fields of the first bytes
UnpackForm(form, packet) ==
    [i \in 1..form.count |->
        UnpackInt(SubSeq(packet, (i - 1) * TypeSize(form.type) + 1,
                         Min(i * TypeSize(form.type), Len(packet))))]

\* last_read before any packet: None
NoFields == <<>>

\* a length test that lets longer packets through
LengthAtLeast(n, len) == n >= len

\* line 358: len(packet) == self._struct_len
LengthMatches(n, len) == n = len

Packets == UNION {[1..n -> {0, 1}] : n \in 0..MaxPacketLen}

\* no SerialReaderBinary yet
InitBinary ==
    /\ struct_form = [type |-> "b", count |-> 0]
    /\ struct_len = 0
    /\ binary_last_packet = NoFields
    /\ bhist = [constructed |-> FALSE, calls |-> 0, packet |-> <<>>,
                before |-> NoFields, raised |-> FALSE]

\* SerialReaderBinary(struct_type, struct_len, type_len)
ConstructBinary(struct_type, count, type_len) ==
    /\ ~bhist.constructed
    /\ struct_form' = [type |-> struct_type, count |-> count]
    /\ struct_len' = count * type_len
    /\ binary_last_packet' = NoFields
    /\ bhist' = [bhist EXCEPT !.constructed = TRUE]
    /\ UNCHANGED <<framerVars, trackerVars, filterVars>>

\* SerialReaderBinary.handle_packet(packet); unpack_from raises struct.error
\* on a buffer shorter than the format
HandlePacketBinary(packet) ==
    /\ bhist.constructed
    /\ bhist.calls < MaxHandled
    /\ LET unpacks == LengthMatches(Len(packet), struct_len)
           raises  == unpacks /\ Len(packet) < FormSize(struct_form)
       IN  /\ binary_last_packet' =
                  IF unpacks /\ ~raises THEN UnpackForm(struct_form, packet)
                  ELSE binary_last_packet
           /\ bhist' = [bhist EXCEPT !.calls = @ + 1, !.packet = packet,
                                     !.before = binary_last_packet,
                                     !.raised = raises]
    /\ UNCHANGED <<struct_form, struct_len>>
    /\ UNCHANGED <<framerVars, trackerVars, filterVars>>

NextBinary ==
    \/ \E t \in StructTypes, n \in 1..MaxFields, l \in {1, 2} : ConstructBinary(t, n, l)
    \/ \E packet \in Packets : HandlePacketBinary(packet)

(***************************************************************************)
(* The specifications.                                                     *)
(***************************************************************************)
Init == InitFramer /\ InitTracker /\ InitFilter /\ InitBinary

\* the framer alone
Next == NextFramer

Spec == Init /\ [][Next]_vars

\* the tracker alone
SpecTracker == Init /\ [][NextTracker]_vars

\* the tracker, with a worker thread that keeps running: every step of run()
\* returns, the acquisition after at most MaxPolls polls
SpecTrackerLive == SpecTracker /\ WF_vars(Worker)

\* one LazyKalman alone
SpecFilter == Init /\ [][NextFilter]_vars

\* one SerialReaderBinary alone
SpecBinary == Init /\ [][NextBinary]_vars

(***************************************************************************)
(* Claims about the framer, checked under Spec.                            *)
(***************************************************************************)
\* the packets decoded by the step that has just been taken
Fresh == SubSeq(out', Len(out) + 1, Len(out'))

\* a data_received step
ReceiveStep == pending # <<>> /\ feed'.calls = feed.calls + 1

\* C1: marker + payload of the exact length + terminator, fed in one call
\* of data_received to an empty buffer, yields exactly one packet, whose
\* header and fields are the injected ones, whatever the payload bytes are
C1_ValidFrameYieldsItsPacket ==
    (Delivered /\ feed.kind = "valid" /\ feed.calls = 1)
        => out = <<Packet(feed.header, feed.vals)>>

\* C2: a frame that is too short or holds no marker yields no packet, and
\* the valid frame that follows its terminator decodes to exactly its
\* injected values
C2_MalformedThenValidDecodes ==
    /\ (Delivered /\ feed.kind \in {"short", "garbage"}) => out = <<>>
    /\ (Delivered /\ feed.kind = "resync")
           => /\ out = <<Packet(feed.header, feed.vals)>>
              /\ last_packet = Packet(feed.header, feed.vals)

\* C3, as claimed: a frame whose payload is shorter or longer than its
\* header's layout yields no packet
C3_WrongLengthDiscarded ==
    (Delivered /\ feed.kind \in {"short", "long"}) => out = <<>>

\* C3, amended: in a frame with one marker, a shorter payload yields no packet
\* and leaves last_read as it was; a longer payload is cut to the layout's
\* length and decoded from its first bytes
C3_ShortDroppedLongTruncated ==
    /\ []((Delivered /\ feed.kind = "short") => out = <<>>)
    /\ []((Delivered /\ feed.kind = "long")
              => /\ out = <<Packet(feed.header, feed.vals)>>
                 /\ last_packet = Packet(feed.header, feed.vals))
    /\ [][(ReceiveStep /\ feed.kind = "short") => last_packet' = last_packet]_vars

C3_Witness ==
    /\ Delivered /\ feed.kind = "long"
    /\ last_packet = Packet(feed.header, feed.vals)

\* C4: in a frame with two markers exactly one marker is decoded, and the
\* other changes nothing
C4_OneMarkerGoverns ==
    (Delivered /\ feed.kind = "multi")
        => /\ Len(out) = 1
           /\ last_packet = out[1]

\* C5, as claimed: the latest packet of every header stays readable
C5_EveryHeaderReadable ==
    \A i \in 1..Len(HEADINGS) :
        lastByHeader[i] # NoPacket => last_packet = lastByHeader[i]

\* C5, amended: there is one slot for all headers; it holds the latest packet
\* of the header that decoded last, a packet of another header replaces it,
\* and a frame that is too short or holds no marker does not
C5_OneSlotForAllHeaders ==
    /\ [](\A i \in 1..Len(HEADINGS) :
              last_packet.header = HEADINGS[i] => last_packet = lastByHeader[i])
    /\ [][(ReceiveStep /\ Fresh # <<>>)
              => last_packet'.header = Fresh[Len(Fresh)].header]_vars
    /\ [][(ReceiveStep /\ feed.kind \in {"short", "garbage"})
              => last_packet' = last_packet]_vars

C5_Witness ==
    \E i, j \in 1..Len(HEADINGS) :
        /\ i # j
        /\ lastByHeader[i] # NoPacket
        /\ last_packet = lastByHeader[j]
        /\ last_packet.header = HEADINGS[j]
        /\ feed.kind \in {"short", "garbage"} /\ Delivered

\* C6: last_read is the packet decoded last in stream order, earlier ones are
\* gone, and it is None only while nothing has decoded
C6_LastWriteWins ==
    /\ out # <<>> => last_packet = out[Len(out)]
    /\ last_packet = NoPacket <=> \A i \in 1..Len(HEADINGS) : lastByHeader[i] = NoPacket

C6_Witness ==
    /\ Delivered
    /\ Len(out) = 2
    /\ out[1] # out[2]
    /\ last_packet = out[2]

\* C22: the framer's result does not depend on the chunking: however the
\* bytes received so far were split into data_received calls (inside a marker,
\* a payload or the terminator), the decoded packets and the bytes left in the
\* buffer are those of one call with all these bytes, and so is last_read: the
\* last decoded packet, or what it was before when nothing decoded.
C22_ChunkingIndependent ==
    /\ [](feed.kind # "none" =>
            LET fed == Take(feed.bytes, Len(feed.bytes) - Len(pending))
                one == Received(<<>>, NoPacket, fed)
            IN  /\ out = one.out
                /\ buffer = one.buffer
                /\ (one.out # <<>> => last_packet = one.last))
    /\ [][(ReceiveStep /\ Fresh = <<>>) => last_packet' = last_packet]_vars

\* C22: a stream has been received in two calls, the first ending inside a
\* frame, and has decoded a packet
C22_Witness ==
    /\ Delivered
    /\ feed.calls = 2
    /\ feed.kind \in {"valid", "resync"}
    /\ out # <<>>
    /\ last_packet = out[Len(out)]

(***************************************************************************)
(* Claims about the tracker, checked under SpecTracker.                    *)
(***************************************************************************)
\* C7: a channel without a blob or with a triangulation that is not finite
\* keeps its row, so get_poses() never returns a NaN or an Inf
C7_NoNanPublished ==
    \A c \in Channels : ~HasNanInPose(snapshot[c].cls)

\* C8: when at_start gets no first frame, the frame source is released, the
\* worker ends with alive False, and __enter__ does not return the tracker
C8_StartFailureVisible ==
    hist.startFailed
        => /\ vs = "None"
           /\ alive = FALSE
           /\ hist.enterResult # "returned"

\* C9: the first failed acquisition of the running loop ends it: no
\* acquisition is begun after it, the worker ends with alive and can_track
\* False, and alive, once False, stays False
C9_FirstFailureEndsLoop ==
    /\ [](~hist.acqAfterFail)
    /\ []((hist.loopFailed /\ wpc = "done")
              => (alive = FALSE /\ can_track = "False"))
    /\ [][alive = FALSE => alive' = FALSE]_vars

C9_Witness ==
    /\ hist.loopFailed
    /\ wpc = "done"
    /\ ~hist.joinTimedOut
    /\ closes = 0

\* C10: the worker never touches the frame source after close() released
\* it, the join of stop() timing out included
C10_NoUseAfterRelease == ~hist.useAfterRelease

\* C11: close() is idempotent and the frame source is released exactly once:
\* whatever the interleaving of close() calls and the worker's clean-up after a
\* failed start, end() is never called twice, never called on a source that is
\* None, and a second close() releases nothing.
C11_ReleasedExactlyOnce ==
    /\ hist.released <= 1
    /\ ~hist.endOnNone
    /\ ~hist.lateRelease

\* C12: a close() that is called twice, or before start() has completed (the
\* thread not yet started included), returns normally: it raises nothing, and
\* no close() is left waiting for the lock.
C12_CloseReturnsNormally ==
    /\ ~hist.closeRaised
    /\ (mpc = "close_lock" => lock = "free")

\* C13: get_poses() returns an independent copy of the whole table, one row
\* a channel: an assignment to the returned array changes neither the internal
\* table nor what a later get_poses() returns, and a later write of the worker
\* does not change an array that was already returned.
C13_ReturnedCopyIndependent ==
    hist.returned # "none" =>
        /\ DOMAIN snapshot = Channels
        /\ ReturnedNow = snapshot
        /\ \A c \in Channels : poses[c].src # "caller"
        /\ (~hist.mutatedSince => \A c \in Channels : snapshot[c].src # "caller")

\* C13: the caller has assigned a row of a returned array and the worker has
\* written the same row of the table after the return
C13_Witness ==
    /\ hist.mutatedSince
    /\ hist.writeAfterReturn
    /\ \E c \in Channels : snapshot[c].src = "caller" /\ poses[c].src \in {"raw", "kalman"}

\* C17: a channel's filter is None until solve_blob_poses has processed a
\* finite triangulation for the channel and exists from then on, it is never
\* set back to None, and no row with a NaN or an Inf is given to LazyKalman,
\* neither to its constructor nor to apply.
C17_FilterLazyAndFedFinite ==
    /\ [](/\ \A c \in Channels : kalmanFilterz[c] <=> hist.finiteSeen[c]
          /\ ~hist.fedNan)
    /\ [][\A c \in Channels : kalmanFilterz[c] => kalmanFilterz'[c]]_vars

\* C17: a channel has a filter, and a row with a NaN has just been triangulated
\* for it
C17_Witness ==
    /\ wpc = "solve_filter"
    /\ kalmanFilterz[key]
    /\ poses[key].src = "raw"
    /\ \E i \in 1..3 : poses[key].cls[i] \in {"N", "I"}

\* C18: once stop() has set alive to False with the worker in the loop of
\* run(), the worker begins no iteration after the one in progress and ends
\* with alive False and can_track False, also when the acquisition in progress
\* sets can_track to True after the stop.
C18_StopEndsLoop ==
    hist.stopInLoop ~>
        (wpc = "done" /\ ~alive /\ can_track = "False" /\ ~hist.iterAfterStop)

\* C18: the worker has ended after a stop() that found it in the loop and an
\* acquisition that returned True after it
C18_Witness ==
    /\ hist.stopInLoop
    /\ hist.trueAfterStop
    /\ wpc = "done"
    /\ ~alive
    /\ can_track = "False"

\* C21: for a channel that already has its filter, a get_poses() that runs
\* during a cycle never returns the raw triangulation of the frame in hand:
\* the row it returns is the pose published before, or a filtered mean.
\* (hist.rawReturned: get_poses() has returned a finite raw row, written over
\* the row of a channel with a filter and not yet filtered.)
C21_NoRawRowOfFilteredChannel == ~hist.rawReturned

(***************************************************************************)
(* The claims on LazyKalman, under SpecFilter.                             *)
(***************************************************************************)
\* C14: on a filter armed with a countdown N > 0, the first N - 1 calls of
\* apply trigger no re-fit and the N-th triggers exactly one; from then on the
\* buffer is empty, the countdown is 0 and no apply triggers another re-fit,
\* until calibrate() is called again.
C14_OneRefitOnTheNthApply ==
    (constructed /\ khist.armed > 0) =>
        LET k == Len(khist.applied)
        IN  IF k < khist.armed
            THEN /\ khist.refitsSinceArm = 0
                 /\ calibration_countdown = khist.armed - k
            ELSE /\ khist.refitsSinceArm = 1
                 /\ calibration_countdown = 0
                 /\ calibration_observations = <<>>

\* C14: a filter armed with N > 0 has had more than N calls of apply
C14_Witness ==
    /\ constructed
    /\ khist.armed > 0
    /\ Len(khist.applied) > khist.armed
    /\ khist.refitsSinceArm = 1

\* C16: right after a filter is constructed from the observation p its mean
\* estimate is p, and the first update starts from p, not from another value
\* such as the zero vector.
C16_FirstUpdateStartsFromObservation ==
    constructed =>
        IF khist.applies = 0
        THEN x_now = initial_state_mean
        ELSE khist.firstStart = initial_state_mean

\* C19: an apply that triggers no re-fit sets the mean to the update's mean;
\* with do_learning False it leaves the covariance as it was, with do_learning
\* True it sets the covariance to the update's covariance.
C19_CovarianceHeldWithoutLearning ==
    [][(khist'.applies = khist.applies + 1 /\ khist'.refits = khist.refits) =>
          LET r == FilterUpdate(x_now, p_now, khist'.lastObs)
          IN  /\ x_now' = r.mean
              /\ p_now' = IF do_learning THEN r.cov ELSE p_now]_vars

\* C19: the last apply ran with do_learning False, triggered no re-fit, and
\* its update would have changed the covariance
C19_Witness ==
    /\ khist.applies > 0
    /\ ~khist.lastLearning
    /\ do_learning = khist.lastLearning
    /\ khist.refits = 0
    /\ FilterUpdate(x_now, p_now, khist.lastObs).cov # p_now

\* C20: at every re-fit the buffer holds exactly the observations applied
\* since the most recent calibrate() call (or the construction), as many as
\* that call's observation count, also when calibrate() was called in the
\* middle of a collection window; the countdown is never negative.
C20_RefitOverTheLatestWindow ==
    /\ khist.refitExact
    /\ calibration_countdown >= 0

(***************************************************************************)
(* The claim on SerialReaderBinary, under SpecBinary.                      *)
(***************************************************************************)
\* C15: handle_packet sets last_read to the unpacked fields if and only if
\* the packet is struct_len * type_len bytes long; a packet of another length
\* leaves last_read as it was, and no error is raised.
C15_UpdatedIffLengthMatches ==
    bhist.calls > 0 =>
        /\ ~bhist.raised
        /\ binary_last_packet =
               IF Len(bhist.packet) = struct_len
               THEN UnpackForm(struct_form, bhist.packet)
               ELSE bhist.before

\* C15, as the code has it: a packet of another length than struct_len *
\* type_len leaves last_read as it was and raises nothing; a packet of that
\* length sets last_read to the fields unpacked from its first bytes when the
\* format needs no more bytes than that, and otherwise raises struct.error and
\* leaves last_read as it was.
C15_UpdatedIffLengthMatchesAndFormatFits ==
    bhist.calls > 0 =>
        IF Len(bhist.packet) # struct_len
        THEN ~bhist.raised /\ binary_last_packet = bhist.before
        ELSE IF FormSize(struct_form) <= struct_len
        THEN ~bhist.raised /\ binary_last_packet = UnpackForm(struct_form, bhist.packet)
        ELSE bhist.raised /\ binary_last_packet = bhist.before

\* C15: a longer packet has left a decoded packet in place
C15_Witness ==
    /\ bhist.calls > 1
    /\ Len(bhist.packet) > struct_len
    /\ binary_last_packet # NoFields
    /\ binary_last_packet = bhist.before

====
